---- MODULE Spec2Model ----
(***************************************************************************)
(* Model of the change-triggered synchronisation engine of                 *)
(* circuitpython_tool:                                                     *)
(*   - async_iter.time_batched    (debounce / batch transform)             *)
(*   - fs.upload                  (timestamp-aware copy onto the device)   *)
(*   - fs.watch_all, INotify      (inotify binding and watch seeding)      *)
(*   - cli.commands.upload        (initial sync, then sync per batch)      *)
(* Each subsystem has its own specification over the shared variables; a   *)
(* specification leaves the variables of the other subsystems untouched.   *)
(***************************************************************************)
EXTENDS Integers, Sequences, FiniteSets, TLC

\* ------------------------------------------------------------------ bounds
\* Number of items the source stream yields in a run.
MaxItems == 4

\* ------------------------------------------------------- generic operators
RECURSIVE Flatten(_)
Flatten(ss) == IF ss = <<>> THEN <<>> ELSE Head(ss) \o Flatten(Tail(ss))

Last(s) == s[Len(s)]

IsSuffix(s, t) ==
    /\ Len(s) <= Len(t)
    /\ SubSeq(t, Len(t) - Len(s) + 1, Len(t)) = s

\* ---------------- variables ----------------
VARIABLES
    \* --- time_batched ---
    sourceItems,   \* items the source stream has yielded so far, in order
    queue,         \* asyncio.Queue filled by save_to_queue
    batch,         \* local `batch` of the running next_batch()
    emitted,       \* batches yielded to the consumer so far, in order
    tbpc,          \* where the generator stands: unstarted, get, delay, suspended
    queue_task,    \* background task: none, running, done
    delays,        \* number of delay() calls started so far
    delaysDone,    \* number of delay() calls that have completed
    duringDelay    \* items put into the queue while the current delay was pending

batchVars == <<sourceItems, queue, batch, emitted, tbpc, queue_task,
               delays, delaysDone, duringDelay>>

VARIABLES
    \* --- fs.upload ---
    src,             \* src[root][rel]: the regular files below each source directory
    srcDirs,         \* srcDirs[root]: the subdirectories of each source directory
    dst,             \* dst[rel]: the regular files below the mountpoint
    dstDirs,         \* the subdirectories of the mountpoint
    now,             \* wall clock, in seconds
    destGranularity, \* mtime resolution of the mountpoint's filesystem, in seconds
    edits,           \* number of source edits made so far
    uploads,         \* number of upload() calls made so far
    changed,         \* source edits since the last upload() call
    lastRun,         \* what the last upload() call did
    missingDirs,     \* the source directories that do not exist
    copyFails        \* the source files <<root, rel>> whose copy raises OSError

uploadVars == <<src, srcDirs, dst, dstDirs, now, destGranularity, edits,
                uploads, changed, lastRun, missingDirs, copyFails>>

VARIABLES
    \* --- fs.watch_all, INotify and the kernel's side of inotify ---
    tree,          \* tree[p]: what exists at path p below the watched root
    kwatches,      \* kernel watch table: the set of <<watch descriptor, path>>
    nextWd,        \* the next watch descriptor the kernel hands out
    kqueue,        \* kernel event queue of the inotify descriptor, unread records
    watch_descriptor_to_path, \* INotify.watch_descriptor_to_path
    fd,            \* the inotify descriptor of the INotify object: none, open, closed
    wpc,           \* init (before watch_all), created (stream returned), iterating,
                   \* closed, failed (ended by an exception)
    rqueue,        \* async_fd_reader's queue of byte strings read from the descriptor
    data,          \* the byte string parse_events is working on
    pos,           \* parse_events' position in data
    yielded,       \* the Events yielded so far, in order
    ops            \* the filesystem operations performed so far, in order; seen:
                   \* the directory was watched, queued: a record was queued

watchVars == <<tree, kwatches, nextWd, kqueue, watch_descriptor_to_path, wpc,
               rqueue, data, pos, yielded, ops, fd>>

VARIABLES
    \* --- cli.commands.upload ---
    mode,          \* --mode: "watch" or "single-shot"
    cpc,           \* where the command stands: initial, synced, loop, awaiting,
                   \* exited, crashed, aborted, cancelling, cancelled
    syncLog        \* the sync() calls made so far, in order

cmdVars == <<mode, cpc, syncLog>>

VARIABLES
    \* --- fs.walk ---
    unreadable,    \* the directories whose listing raises PermissionError
    iterOrder,     \* the order in which iterdir() yields the names of a directory
    walkCalls,     \* number of walk(root) calls made so far
    wstate,        \* the generator: none, created, running, done, raised
    walkStack,     \* the nested walk() generators, outermost first
    walked,        \* the paths the generator has yielded so far, in order
    \* --- fs.walk_all ---
    walk_roots,         \* the roots argument of walk_all, a sequence of directories
    rootIdx,       \* index in roots of the root being traversed, 0 before the first
    wastate,       \* the walk_all generator: none, created, running, done, raised
    pairs          \* the pairs the walk_all generator has yielded so far, in order

walkVars == <<unreadable, iterOrder, walkCalls, wstate, walkStack, walked,
              walk_roots, rootIdx, wastate, pairs>>

VARIABLES
    \* --- cli.config.ConfigStorage ---
    cfgParent,     \* whether the parent directory of the configuration file exists
    cfgFile,       \* the file: whether it exists, and its device_labels table
    cfgWrites,     \* number of times the file has been opened for writing
    config,        \* the Config yielded by open()
    old_config,    \* the copy open() took before yielding
    opc,           \* the open() context: none, body, exited, raised
    opens          \* number of open() calls made so far

cfgVars == <<cfgParent, cfgFile, cfgWrites, config, old_config, opc, opens>>

VARIABLES
    \* --- fs.inotify.retry_on_eintr ---
    attempts,      \* the libc calls of the current wrapped call: <<result, errno>> each
    rpc,           \* the wrapped call: none, calling, returned, raised
    result,        \* the value the wrapper returned
    raised_errno,  \* the errno of the OSError the wrapper raised
    ctypes_errno,  \* the errno value get_errno() reports
    libcCalls      \* number of libc calls made so far

eintrVars == <<attempts, rpc, result, raised_errno, ctypes_errno, libcCalls>>

VARIABLES
    \* --- INotify.parse_events on its own ---
    records        \* the records the byte string given to parse_events is made of

parseVars == <<records>>

\* The state of the helpers the upload command does not touch.
utilVars == <<walkVars, cfgVars, eintrVars, parseVars>>

vars == <<batchVars, uploadVars, watchVars, cmdVars, walkVars, cfgVars, eintrVars,
          parseVars>>

\* The variables each subsystem leaves alone.
notBatchVars == <<uploadVars, watchVars, cmdVars, walkVars, cfgVars, eintrVars,
    parseVars>>
notUploadVars == <<batchVars, watchVars, cmdVars, walkVars, cfgVars, eintrVars,
    parseVars>>
notWatchVars == <<batchVars, uploadVars, cmdVars, walkVars, cfgVars, eintrVars,
    parseVars>>
notWalkVars == <<batchVars, uploadVars, watchVars, cmdVars, cfgVars, eintrVars,
    parseVars>>
notEintrVars == <<batchVars, uploadVars, watchVars, cmdVars, walkVars, cfgVars,
    parseVars>>
notCfgVars == <<batchVars, uploadVars, watchVars, cmdVars, walkVars, eintrVars,
    parseVars>>

\* Values carried by the source stream.
Items == {"x", "y"}

\* ---------------- time_batched ----------------
BatchInit ==
    /\ sourceItems = <<>>
    /\ queue = <<>>
    /\ batch = <<>>
    /\ emitted = <<>>
    /\ tbpc = "unstarted"
    /\ queue_task = "none"
    /\ delays = 0
    /\ delaysDone = 0
    /\ duringDelay = <<>>

\* save_to_queue: the source yields x and the task puts it into the queue
\* without suspending in between.
save_to_queue_lossy(x) ==
    /\ queue_task = "running"
    /\ Len(sourceItems) < MaxItems
    /\ sourceItems' = Append(sourceItems, x)
    /\ queue' = IF tbpc = "delay" THEN queue ELSE Append(queue, x)
    /\ duringDelay' = IF tbpc = "delay" THEN Append(duringDelay, x) ELSE duringDelay
    /\ UNCHANGED <<batch, emitted, tbpc, queue_task, delays, delaysDone>>
    /\ UNCHANGED notBatchVars

save_to_queue_restart(x) ==
    /\ queue_task = "running"
    /\ Len(sourceItems) < MaxItems
    /\ sourceItems' = Append(sourceItems, x)
    /\ queue' = Append(queue, x)
    /\ duringDelay' = IF tbpc = "delay" THEN Append(duringDelay, x) ELSE duringDelay
    /\ delays' = IF tbpc = "delay" THEN delays + 1 ELSE delays
    /\ UNCHANGED <<batch, emitted, tbpc, queue_task, delaysDone>>
    /\ UNCHANGED notBatchVars

save_to_queue(x) ==
    /\ queue_task = "running"
    /\ Len(sourceItems) < MaxItems
    /\ sourceItems' = Append(sourceItems, x)
    /\ queue' = Append(queue, x)
    /\ duringDelay' = IF tbpc = "delay" THEN Append(duringDelay, x) ELSE duringDelay
    /\ UNCHANGED <<batch, emitted, tbpc, queue_task, delays, delaysDone>>
    /\ UNCHANGED notBatchVars

\* The source stream is exhausted: `async for` ends and the task returns.
source_exhausted_ends_stream ==
    /\ queue_task = "running"
    /\ queue_task' = "done"
    /\ tbpc' = IF tbpc = "get" THEN "closed" ELSE tbpc
    /\ UNCHANGED <<sourceItems, queue, batch, emitted, delays,
                   delaysDone, duringDelay>>
    /\ UNCHANGED notBatchVars

source_exhausted ==
    /\ queue_task = "running"
    /\ queue_task' = "done"
    /\ UNCHANGED <<sourceItems, queue, batch, emitted, tbpc, delays,
                   delaysDone, duringDelay>>
    /\ UNCHANGED notBatchVars

\* The consumer requests the next batch (anext).  The first request runs the
\* generator body up to the first await: it creates queue_task and enters
\* next_batch.  queue.get() returns at once when the queue holds an item and
\* the delay starts; otherwise the generator waits in queue.get().
anext_no_wait ==
    /\ tbpc \in {"unstarted", "suspended"}
    /\ queue_task' = IF tbpc = "unstarted" THEN "running" ELSE queue_task
    /\ IF queue # <<>>
         THEN /\ batch' = <<Head(queue)>>
              /\ queue' = Tail(queue)
              /\ tbpc' = "delay"
              /\ delays' = delays + 1
              /\ duringDelay' = <<>>
              /\ UNCHANGED <<emitted, delaysDone>>
         ELSE /\ emitted' = Append(emitted, <<>>)
              /\ UNCHANGED <<queue, batch, tbpc, delays, delaysDone, duringDelay>>
    /\ UNCHANGED sourceItems
    /\ UNCHANGED notBatchVars

anext_step ==
    /\ tbpc \in {"unstarted", "suspended"}
    /\ queue_task' = IF tbpc = "unstarted" THEN "running" ELSE queue_task
    /\ IF queue # <<>>
         THEN /\ batch' = <<Head(queue)>>
              /\ queue' = Tail(queue)
              /\ tbpc' = "delay"
              /\ delays' = delays + 1
              /\ duringDelay' = <<>>
         ELSE /\ tbpc' = "get"
              /\ UNCHANGED <<queue, batch, delays, duringDelay>>
    /\ UNCHANGED <<sourceItems, emitted, delaysDone>>

anext == anext_step /\ UNCHANGED notBatchVars

\* next_batch resumes from queue.get() with the first item of the batch and
\* starts the delay.
next_batch_first ==
    /\ tbpc = "get"
    /\ queue # <<>>
    /\ batch' = <<Head(queue)>>
    /\ queue' = Tail(queue)
    /\ tbpc' = "delay"
    /\ delays' = delays + 1
    /\ duringDelay' = <<>>
    /\ UNCHANGED <<sourceItems, emitted, queue_task, delaysDone>>
    /\ UNCHANGED notBatchVars

\* delay() completes: next_batch drains the queue with get_nowait until
\* QueueEmpty, returns the batch and the generator yields it.
next_batch_drain ==
    /\ tbpc = "delay"
    /\ emitted' = Append(emitted, batch \o queue)
    /\ queue' = <<>>
    /\ batch' = <<>>
    /\ tbpc' = "suspended"
    /\ delaysDone' = delaysDone + 1
    /\ UNCHANGED <<sourceItems, queue_task, delays, duringDelay>>
    /\ UNCHANGED notBatchVars

\* ---------------- fs.upload ----------------
\* Seconds on the wall clock, source edits and upload() calls in a run.
MaxTime == 2
MaxEdits == 2
MaxUploads == 2

\* The source directories handed to upload(), in list order.
source_dirs == <<"A", "B">>
Roots == {source_dirs[i] : i \in DOMAIN source_dirs}

\* Paths relative to a source directory (and to the mountpoint).
DirNames == {"lib"}
RelFiles == {<<"code.py">>, <<".env">>, <<"lib", "helper.py">>, <<"lib", "util.py">>}
HiddenNames == {".env"}
\* A name that is a regular file in a source directory and a directory on
\* the mountpoint, and the file inside that directory with the same name.
ClashFiles == {<<"lib">>, <<"lib", "lib">>}
Paths == RelFiles \cup ClashFiles

Name(rel) == rel[Len(rel)]
IsTopLevel(rel) == Len(rel) = 1
\* source.name[0] == "."
IsHidden(rel) == Name(rel) \in HiddenNames

\* The files and directories the user edits in a run: the main file, the
\* hidden file and one library file of the first source directory, and the
\* file of the second one that collides with it.
EditableFiles ==
    {<<"A", rel>> : rel \in RelFiles \ {<<"lib", "util.py">>}}
        \cup {<<"B", <<"code.py">>>>}
EditableDirs == {<<"A", d>> : d \in DirNames}

NoFile == [exists |-> FALSE, content |-> 0, mtime |-> 0]
File(c, t) == [exists |-> TRUE, content |-> c, mtime |-> t]

NoRun == [outcome |-> "none", copied |-> <<>>, decisions |-> <<>>,
          changedBefore |-> {}, prevOutcome |-> "none"]

\* The source trees a run starts from: a single file, and a file next to a
\* subdirectory holding a file; the second source directory starts empty.
InitialTrees ==
    {[files |-> {<<"code.py">>}, dirs |-> {}],
     [files |-> {<<"code.py">>, <<"lib", "helper.py">>}, dirs |-> {"lib"}]}

UploadInit ==
    /\ \E t \in InitialTrees :
         /\ src = [r \in Roots |-> [rel \in Paths |->
                     IF r = source_dirs[1] /\ rel \in t.files
                       THEN File(0, 0) ELSE NoFile]]
         /\ srcDirs = [r \in Roots |-> IF r = source_dirs[1] THEN t.dirs ELSE {}]
    /\ dst = [rel \in Paths |-> NoFile]
    /\ dstDirs = {}
    /\ now = 0
    /\ destGranularity \in {1, 2}
    /\ edits = 0
    /\ uploads = 0
    /\ changed = {}
    /\ lastRun = NoRun
    /\ missingDirs = {}
    /\ copyFails = {}

\* Round source timestamp to 2s resolution to match FAT drive.
CoarsenSymmetric(t) == t

Coarsen(t) == (t \div 2) * 2

\* The mtime the mountpoint's filesystem keeps for a file whose mtime is set
\* to t: a FAT volume keeps 2-second resolution, other filesystems keep t.
StoredMtime(t) == (t \div destGranularity) * destGranularity

\* copy_file(source, dest) for a regular file `rel` of source directory
\* `root`, applied to the run state st; every call that reaches the
\* timestamp comparison or the copy is logged in st.decisions.  shutil.copy2
\* raises OSError for the files in copyFails and leaves the destination as
\* it was.  When dest is a directory, dest.exists() holds, dest.stat() is
\* that of the directory (its modification time equals the rounded source
\* time or not: dirSame) and shutil.copy2 copies the file into the
\* directory under the source's name.
copy_file_swallow(st, root, rel) ==
    LET s == src[root][rel]
        intoDir == IsTopLevel(rel) /\ Name(rel) \in st.dirs
        target == IF intoDir THEN <<Name(rel), Name(rel)>> ELSE rel
        d == IF intoDir THEN File(0, IF st.dirSame THEN Coarsen(s.mtime) ELSE -1)
                        ELSE st.files[rel]
        same == d.exists /\ Coarsen(s.mtime) = d.mtime
        raises == ~same /\ <<root, rel>> \in copyFails
        entry == [root |-> root, rel |-> rel, t1 |-> s.mtime,
                  destExists |-> d.exists, t2 |-> d.mtime,
                  copied |-> ~same /\ ~raises, raised |-> raises]
    IN  IF IsHidden(rel) THEN st
        ELSE IF same \/ raises
          THEN [st EXCEPT !.decisions = Append(@, entry)]
          ELSE [st EXCEPT !.files[target] = File(s.content, StoredMtime(s.mtime)),
                          !.copied = Append(@, <<root, rel>>),
                          !.decisions = Append(@, entry)]

copy_file(st, root, rel) ==
    LET s == src[root][rel]
        intoDir == IsTopLevel(rel) /\ Name(rel) \in st.dirs
        target == IF intoDir THEN <<Name(rel), Name(rel)>> ELSE rel
        d == IF intoDir THEN File(0, IF st.dirSame THEN Coarsen(s.mtime) ELSE -1)
                        ELSE st.files[rel]
        same == d.exists /\ Coarsen(s.mtime) = d.mtime
        raises == ~same /\ <<root, rel>> \in copyFails
        entry == [root |-> root, rel |-> rel, t1 |-> s.mtime,
                  destExists |-> d.exists, t2 |-> d.mtime,
                  copied |-> ~same /\ ~raises, raised |-> raises]
    IN  IF IsHidden(rel) THEN st
        ELSE IF same
          THEN [st EXCEPT !.decisions = Append(@, entry)]
        ELSE IF raises
          THEN [st EXCEPT !.decisions = Append(@, entry), !.outcome = "OSError"]
          ELSE [st EXCEPT !.files[target] = File(s.content, StoredMtime(s.mtime)),
                          !.copied = Append(@, <<root, rel>>),
                          !.decisions = Append(@, entry)]

\* The files of `root` directly inside subdirectory `d`, in a fixed order.
RECURSIVE SetToSeq(_)
SetToSeq(S) ==
    IF S = {} THEN <<>>
    ELSE LET x == CHOOSE y \in S : TRUE IN <<x>> \o SetToSeq(S \ {x})

FilesIn(root, d) ==
    {rel \in Paths : Len(rel) = 2 /\ rel[1] = d /\ src[root][rel].exists}

\* The loop of copytree over the entries of the directory: an OSError of
\* copy_function is appended to `errors` and the loop goes on.
RECURSIVE CopyFiles(_, _, _)
CopyFiles(st, root, rels) ==
    IF rels = <<>> THEN st
    ELSE LET st2 == copy_file(st, root, Head(rels))
             st3 == IF st2.outcome = "OSError"
                      THEN [st2 EXCEPT !.outcome = "ok",
                                       !.errors = Append(@, <<root, Head(rels)>>)]
                      ELSE st2
         IN  CopyFiles(st3, root, Tail(rels))

\* shutil.copytree(source, dest, copy_function=copy_file): os.makedirs(dest)
\* raises FileExistsError when dest exists (dirs_exist_ok is left False),
\* otherwise the directory is created and its files go through copy_file;
\* the errors collected on the way are raised as shutil.Error at the end.
copytree_exist_ok(st, root, d) ==
    CopyFiles([st EXCEPT !.dirs = @ \cup {d}], root, SetToSeq(FilesIn(root, d)))

copytree(st, root, d) ==
    IF d \in st.dirs \/ st.files[<<d>>].exists
      THEN [st EXCEPT !.outcome = "FileExistsError"]
      ELSE LET r == CopyFiles([st EXCEPT !.dirs = @ \cup {d}], root,
                              SetToSeq(FilesIn(root, d)))
           IN  IF r.errors # <<>> THEN [r EXCEPT !.outcome = "Error"] ELSE r

\* The entries source_dir.iterdir() yields: names of top-level files and
\* subdirectories.
TopEntries(root) ==
    {Name(rel) : rel \in {q \in Paths : IsTopLevel(q) /\ src[root][q].exists}}
      \cup srcDirs[root]

\* One source directory: the loop body of upload() over the entries in the
\* order iterdir() yields them; an exception ends the run.
RECURSIVE UploadEntries(_, _, _)
UploadEntries(st, root, names) ==
    IF names = <<>> \/ st.outcome # "ok" THEN st
    ELSE LET n == Head(names)
             st2 == IF n \in srcDirs[root] THEN copytree(st, root, n)
                                      ELSE copy_file(st, root, <<n>>)
         IN  UploadEntries(st2, root, Tail(names))

\* The loop of upload() over source_dirs; iterdir() of a directory that
\* does not exist raises FileNotFoundError.
RECURSIVE UploadDirs_skip_missing(_, _, _)
UploadDirs_skip_missing(st, roots, order) ==
    IF roots = <<>> \/ st.outcome # "ok" THEN st
    ELSE IF Head(roots) \in missingDirs
      THEN UploadDirs_skip_missing(st, Tail(roots), order)
    ELSE UploadDirs_skip_missing(
             UploadEntries(st, Head(roots), order[Head(roots)]),
             Tail(roots), order)

RECURSIVE UploadDirs(_, _, _)
UploadDirs(st, roots, order) ==
    IF roots = <<>> \/ st.outcome # "ok" THEN st
    ELSE IF Head(roots) \in missingDirs
      THEN [st EXCEPT !.outcome = "FileNotFoundError"]
    ELSE UploadDirs(UploadEntries(st, Head(roots), order[Head(roots)]),
                    Tail(roots), order)

Perms(S) ==
    {p \in [1..Cardinality(S) -> S] : \A x \in S : \E i \in DOMAIN p : p[i] = x}

\* The orders in which iterdir() may yield the entries of each source directory.
IterOrders ==
    {[r \in Roots |-> IF r = source_dirs[1] THEN o1 ELSE o2] :
        o1 \in Perms(TopEntries(source_dirs[1])),
        o2 \in Perms(TopEntries(source_dirs[2]))}

\* Whether the modification time of a destination directory can equal the
\* rounded time of a source file of the same name: only asked when such a
\* pair exists.
DirSameChoices ==
    IF \E r \in Roots, d \in dstDirs \cup UNION {srcDirs[q] : q \in Roots} :
           src[r][<<d>>].exists
      THEN BOOLEAN ELSE {FALSE}

\* The result of upload(source_dirs, mountpoint) from the current state.
UploadResult(order, dirSame) ==
    UploadDirs([files |-> dst, dirs |-> dstDirs, copied |-> <<>>,
                decisions |-> <<>>, errors |-> <<>>, outcome |-> "ok",
                dirSame |-> dirSame],
               source_dirs, order)

\* upload(source_dirs, mountpoint)
upload_step ==
    /\ \E order \in IterOrders, dirSame \in DirSameChoices :
         LET res == UploadResult(order, dirSame) IN
         /\ dst' = res.files
         /\ dstDirs' = res.dirs
         /\ lastRun' = [outcome |-> res.outcome, copied |-> res.copied,
                        decisions |-> res.decisions,
                        changedBefore |-> changed,
                        prevOutcome |-> lastRun.outcome]
    /\ uploads' = uploads + 1
    /\ changed' = {}
    /\ UNCHANGED <<src, srcDirs, now, destGranularity, edits, missingDirs,
                   copyFails>>

upload ==
    /\ uploads < MaxUploads
    /\ upload_step
    /\ UNCHANGED notUploadVars

\* --- upload() applied once to an arbitrary pair of source directories ---
\* The trees a source directory may hold: any subdirectories and any files
\* whose directory exists.
SourceTrees ==
    {t \in [files : SUBSET RelFiles, dirs : SUBSET DirNames] :
        \A rel \in t.files : IsTopLevel(rel) \/ rel[1] \in t.dirs}

\* Position of a source directory in source_dirs; its files carry it as
\* their content, so that the copies of different directories differ.
RootIndex(r) == CHOOSE i \in DOMAIN source_dirs : source_dirs[i] = r

\* The first directory may hold a hidden file; all files of one directory
\* share a modification time; at most one source directory is missing (and
\* then holds nothing) and at most one file cannot be copied.
UploadOnceInit ==
    /\ \E t \in [Roots -> SourceTrees], m \in [Roots -> 0..MaxTime] :
         /\ \A rel \in t[source_dirs[2]].files : ~IsHidden(rel)
         /\ src = [r \in Roots |-> [rel \in Paths |->
                     IF rel \in t[r].files THEN File(RootIndex(r), m[r])
                                           ELSE NoFile]]
         /\ srcDirs = [r \in Roots |-> t[r].dirs]
         /\ \A r \in Roots : t[r].files = {} => m[r] = 0
    /\ dst = [rel \in Paths |-> NoFile]
    /\ dstDirs = {}
    /\ now = MaxTime
    /\ destGranularity \in {1, 2}
    /\ edits = 0
    /\ uploads = 0
    /\ changed = {}
    /\ lastRun = NoRun
    /\ missingDirs \in {{}} \cup {{r} : r \in Roots}
    /\ \A r \in missingDirs :
         srcDirs[r] = {} /\ \A rel \in RelFiles : ~src[r][rel].exists
    /\ copyFails \in {{}} \cup
         {{<<r, rel>>} : r \in Roots, rel \in {q \in RelFiles : ~IsHidden(q)}}
    /\ \A e \in copyFails : src[e[1]][e[2]].exists

upload_once ==
    /\ uploads = 0
    /\ upload_step
    /\ UNCHANGED notUploadVars

UploadOnceNext == upload_once

\* --- the user's edits of the source tree ---
\* A file is written: new content, modification time set to the clock.
write_file(root, rel) ==
    /\ edits < MaxEdits
    /\ IsTopLevel(rel) \/ rel[1] \in srcDirs[root]
    /\ src' = [src EXCEPT ![root][rel] = File(edits + 1, now)]
    /\ edits' = edits + 1
    /\ changed' = changed \cup
         {[root |-> root, rel |-> rel, existed |-> src[root][rel].exists,
           oldMtime |-> src[root][rel].mtime, newMtime |-> now]}
    /\ UNCHANGED <<srcDirs, dst, dstDirs, now, destGranularity, uploads, lastRun,
                   missingDirs, copyFails>>
    /\ UNCHANGED notUploadVars

mkdir(root, d) ==
    /\ edits < MaxEdits
    /\ d \notin srcDirs[root]
    /\ srcDirs' = [srcDirs EXCEPT ![root] = @ \cup {d}]
    /\ edits' = edits + 1
    /\ changed' = changed \cup {[root |-> root, rel |-> <<d>>, existed |-> FALSE,
                                 oldMtime |-> 0, newMtime |-> now]}
    /\ UNCHANGED <<src, dst, dstDirs, now, destGranularity, uploads, lastRun,
                   missingDirs, copyFails>>
    /\ UNCHANGED notUploadVars

tick ==
    /\ now < MaxTime
    /\ now' = now + 1
    /\ UNCHANGED <<src, srcDirs, dst, dstDirs, destGranularity, edits, uploads,
                   changed, lastRun, missingDirs, copyFails>>
    /\ UNCHANGED notUploadVars

UploadNext ==
    \/ upload
    \/ \E e \in EditableFiles : write_file(e[1], e[2])
    \/ \E e \in EditableDirs : mkdir(e[1], e[2])
    \/ tick

\* --- upload onto a mountpoint that already holds files ---
\* The source trees of the first source directory: a single file, a file
\* next to a subdirectory, and a file next to a regular file named lib.
MountSources ==
    InitialTrees \cup {[files |-> {<<"code.py">>, <<"lib">>}, dirs |-> {}]}

\* What the mountpoint may hold before the first run: any files, each in
\* an existing directory; a name is a file or a directory, not both.
MountContents ==
    {m \in [files : SUBSET Paths, dirs : SUBSET DirNames] :
        \A rel \in m.files :
            IF IsTopLevel(rel) THEN rel[1] \notin m.dirs ELSE rel[1] \in m.dirs}

\* The source files are newer than whatever the mountpoint holds.
MountInit ==
    /\ \E t \in MountSources :
         /\ src = [r \in Roots |-> [rel \in Paths |->
                     IF r = source_dirs[1] /\ rel \in t.files
                       THEN File(1, MaxTime) ELSE NoFile]]
         /\ srcDirs = [r \in Roots |-> IF r = source_dirs[1] THEN t.dirs ELSE {}]
    /\ \E m \in MountContents :
         /\ dst = [rel \in Paths |-> IF rel \in m.files THEN File(9, 0) ELSE NoFile]
         /\ dstDirs = m.dirs
    /\ now = MaxTime
    /\ destGranularity = 2
    /\ edits = 0
    /\ uploads = 0
    /\ changed = {}
    /\ lastRun = NoRun
    /\ missingDirs = {}
    /\ copyFails = {}

\* The user deletes a source file.
unlink(root, rel) ==
    /\ edits < MaxEdits
    /\ src[root][rel].exists
    /\ src' = [src EXCEPT ![root][rel] = NoFile]
    /\ edits' = edits + 1
    /\ UNCHANGED <<srcDirs, dst, dstDirs, now, destGranularity, uploads, changed,
                   lastRun, missingDirs, copyFails>>
    /\ UNCHANGED notUploadVars

MountNext ==
    \/ upload
    \/ \E e \in EditableFiles : unlink(e[1], e[2])

\* ---------------- INotify and fs.watch_all ----------------
\* Filesystem operations in a run.
MaxOps == 3

\* INotify.Mask
CREATE == 256
MODIFY == 2
ATTRIB == 4
DELETE == 512
DELETE_SELF == 1024
Q_OVERFLOW == 16384
IGNORED == 32768
ISDIR == 1073741824

\* `flag in mask` for a single-bit flag
HasFlag(mask, flag) == (mask \div flag) % 2 = 1

\* mask = Mask.CREATE | Mask.MODIFY | Mask.ATTRIB | Mask.DELETE | Mask.DELETE_SELF
watch_mask == CREATE + MODIFY + ATTRIB + DELETE + DELETE_SELF

\* The watched tree: a root with room for a subdirectory, a file and an
\* entry one level further down.
root == <<"root">>
Names == {"a", "b"}
TreePaths == {<<"root", "a">>, <<"root", "b">>, <<"root", "a", "b">>}
Parent(p) == SubSeq(p, 1, Len(p) - 1)
Exists(p) == p = root \/ (p \in TreePaths /\ tree[p] # "absent")
is_dir(p) == p = root \/ (p \in TreePaths /\ tree[p] = "dir")

\* os.fsencode / os.fsdecode of a file name
fsencode(n) == IF n = "a" THEN <<97>> ELSE IF n = "b" THEN <<98>> ELSE <<>>
fsdecode(bytes) == CHOOSE n \in Names \cup {""} : fsencode(n) = bytes

\* base_path / name
PathJoin(base, n) == IF n = "" THEN base ELSE Append(base, n)

\* --- struct inotify_event on the wire: "iIII" is four native 32-bit
\* integers (16 bytes), followed by name_length bytes of name ---
EVENT_SIZE == 16

\* Two's complement little-endian bytes of a 32-bit integer (\div rounds
\* down, so a negative v gets the bytes of v + 2^32).
Pack32(v) ==
    <<v % 256, (v \div 256) % 256, (v \div 65536) % 256, (v \div 16777216) % 256>>

\* struct.unpack_from of one signed ("i") / unsigned ("I") field at 0-based
\* offset off; the unsigned values of the model stay below 2^31.
UnpackI32(bytes, off) ==
    LET top == bytes[off + 4]
    IN  bytes[off + 1] + 256 * bytes[off + 2] + 65536 * bytes[off + 3]
          + 16777216 * (IF top >= 128 THEN top - 256 ELSE top)
UnpackU32(bytes, off) ==
    bytes[off + 1] + 256 * bytes[off + 2] + 65536 * bytes[off + 3]
      + 16777216 * bytes[off + 4]

Zeros(n) == [i \in 1..n |-> 0]

\* The kernel pads a name with NUL bytes to a multiple of the header size;
\* an event about the watched directory itself carries no name.
PaddedName(n) ==
    LET b == fsencode(n)
        len == IF b = <<>> THEN 0
               ELSE ((Len(b) + 1 + EVENT_SIZE - 1) \div EVENT_SIZE) * EVENT_SIZE
    IN  b \o Zeros(len - Len(b))

EncodeEvent(rec) ==
    LET nm == PaddedName(rec.name)
    IN  Pack32(rec.wd) \o Pack32(rec.mask) \o Pack32(0) \o Pack32(Len(nm)) \o nm

RECURSIVE EncodeAll(_)
EncodeAll(recs) ==
    IF recs = <<>> THEN <<>> ELSE EncodeEvent(Head(recs)) \o EncodeAll(Tail(recs))

\* --- the kernel's watch table ---
WatchedWd(p) == {w \in kwatches : w[2] = p}
IsWatched(p) == WatchedWd(p) # {}
WdOf(p) == (CHOOSE w \in WatchedWd(p) : TRUE)[1]

\* The kernel queues an event for the watch on directory dir, unless it is
\* identical to the newest unread event (such events are coalesced).
Queued(q, dir, mask, n) ==
    LET rec == [wd |-> WdOf(dir), mask |-> mask, name |-> n]
    IN  IF ~IsWatched(dir) THEN q
        ELSE IF q # <<>> /\ Last(q) = rec THEN q
        ELSE Append(q, rec)

\* The directories walk_all(roots) yields, parents before children.
RECURSIVE DirsInWalkOrder(_, _)
DirsInWalkOrder(n, acc) ==
    IF n > 3 THEN acc
    ELSE DirsInWalkOrder(n + 1,
           acc \o SetToSeq({p \in TreePaths \cup {root} : Len(p) = n /\ is_dir(p)}))

\* INotify.add_watch applied to the pair <<kernel table, descriptor map>>.
\* inotify_add_watch returns the descriptor of an existing watch of the
\* same directory or a new one.
add_watch(st, path) ==
    LET known == {w \in st.kw : w[2] = path}
        descriptor == IF known # {} THEN (CHOOSE w \in known : TRUE)[1] ELSE st.next
    IN  [kw |-> st.kw \cup {<<descriptor, path>>},
         next |-> IF known # {} THEN st.next ELSE st.next + 1,
         map |-> [w \in DOMAIN st.map \cup {descriptor} |->
                    IF w = descriptor THEN path ELSE st.map[w]]]

RECURSIVE AddWatches(_, _)
AddWatches(st, paths) ==
    IF paths = <<>> THEN st ELSE AddWatches(add_watch(st, Head(paths)), Tail(paths))

\* The trees a session starts from.
InitialWatchTrees ==
    {[p \in TreePaths |-> "absent"],
     [p \in TreePaths |-> IF p = <<"root", "a">> THEN "dir" ELSE "absent"],
     [p \in TreePaths |-> IF p = <<"root", "b">> THEN "file" ELSE "dir"]}

WatcherInit ==
    /\ kwatches = {}
    /\ nextWd = 1
    /\ kqueue = <<>>
    /\ watch_descriptor_to_path = <<>>
    /\ wpc = "init"
    /\ fd = "none"
    /\ rqueue = <<>>
    /\ data = <<>>
    /\ pos = 0
    /\ yielded = <<>>
    /\ ops = <<>>

WatchInit == tree \in InitialWatchTrees /\ WatcherInit

\* watch_all(roots): create the watcher and add a watch for every directory
\* that walk_all finds; the stream is returned but not yet iterated.
watch_all_step_lazy ==
    /\ wpc = "init"
    /\ wpc' = "created"
    /\ fd' = "open"
    /\ UNCHANGED <<kwatches, nextWd, watch_descriptor_to_path>>
    /\ UNCHANGED <<tree, kqueue, rqueue, data, pos, yielded, ops>>

watch_all_step ==
    /\ wpc = "init"
    /\ LET st == AddWatches([kw |-> {}, next |-> nextWd, map |-> <<>>],
                            DirsInWalkOrder(1, <<>>))
       IN  /\ kwatches' = st.kw
           /\ nextWd' = st.next
           /\ watch_descriptor_to_path' = st.map
    /\ wpc' = "created"
    /\ fd' = "open"
    /\ UNCHANGED <<tree, kqueue, rqueue, data, pos, yielded, ops>>

watch_all == watch_all_step /\ UNCHANGED notWatchVars

\* The first item is requested: events() enters async_fd_reader, which
\* registers the reader callback for the descriptor.
events_start_step ==
    /\ wpc = "created"
    /\ wpc' = "iterating"
    /\ UNCHANGED <<tree, kwatches, nextWd, kqueue, watch_descriptor_to_path,
                   rqueue, data, pos, yielded, ops, fd>>

events_start == events_start_step /\ UNCHANGED notWatchVars

\* The stream is left, by cancellation or by an exception passing through
\* `async with`: async_fd_reader removes the reader callback and the `with`
\* of os.fdopen closes the descriptor.
events_close_step ==
    /\ wpc = "iterating"
    /\ wpc' = "closed"
    /\ fd' = "closed"
    /\ UNCHANGED <<tree, kwatches, nextWd, kqueue, watch_descriptor_to_path,
                   rqueue, data, pos, yielded, ops>>

\* The descriptor is readable: the callback reads every queued record and
\* puts the bytes into the reader's queue.
on_readable_drop_last ==
    /\ wpc = "iterating"
    /\ kqueue # <<>>
    /\ rqueue' = Append(rqueue, EncodeAll(<<Head(kqueue)>>))
    /\ kqueue' = <<>>
    /\ UNCHANGED <<tree, kwatches, nextWd, watch_descriptor_to_path, wpc, fd, data,
                   pos, yielded, ops>>
    /\ UNCHANGED notWatchVars

on_readable ==
    /\ wpc = "iterating"
    /\ kqueue # <<>>
    /\ rqueue' = Append(rqueue, EncodeAll(kqueue))
    /\ kqueue' = <<>>
    /\ UNCHANGED <<tree, kwatches, nextWd, watch_descriptor_to_path, wpc, fd, data,
                   pos, yielded, ops>>
    /\ UNCHANGED notWatchVars

\* raw_name.find(0): 0-based index of the first NUL byte, -1 if there is none
RECURSIVE FindFrom(_, _)
FindFrom(bytes, i) ==
    IF i > Len(bytes) THEN -1
    ELSE IF bytes[i] = 0 THEN i - 1
    ELSE FindFrom(bytes, i + 1)

Find0(bytes) == FindFrom(bytes, 1)

\* bytes[:k] with Python's meaning of a negative k
SliceTo(bytes, k) ==
    IF k >= 0 THEN SubSeq(bytes, 1, IF k < Len(bytes) THEN k ELSE Len(bytes))
    ELSE SubSeq(bytes, 1, Len(bytes) + k)

\* One turn of the loop of parse_events on buffer buf at position at: the
\* Event and the position after the record; known is FALSE when the lookup
\* of the watch descriptor raises KeyError.
ParseOne_ignore_name(buf, at, map) ==
    LET watch_descriptor == UnpackI32(buf, at)
        name_length == UnpackU32(buf, at + 12)
    IN  [known |-> watch_descriptor \in DOMAIN map,
         event |-> [mask |-> UnpackU32(buf, at + 4), path |-> map[watch_descriptor]],
         pos |-> at + EVENT_SIZE + name_length]

ParseOne(buf, at, map) ==
    LET watch_descriptor == UnpackI32(buf, at)
        mask == UnpackU32(buf, at + 4)
        name_length == UnpackU32(buf, at + 12)
        p1 == at + EVENT_SIZE
        raw_name == SubSeq(buf, p1 + 1, p1 + name_length)
        name_bytes == SliceTo(raw_name, Find0(raw_name))
        known == watch_descriptor \in DOMAIN map
        base_path == IF known THEN map[watch_descriptor] ELSE <<>>
    IN  [known |-> known,
         event |-> [mask |-> mask, path |-> PathJoin(base_path, fsdecode(name_bytes))],
         pos |-> p1 + name_length]

\* events() takes the next byte string from the reader's queue once
\* parse_events has finished the previous one.
events_next_data ==
    /\ wpc = "iterating"
    /\ pos >= Len(data)
    /\ rqueue # <<>>
    /\ data' = Head(rqueue)
    /\ rqueue' = Tail(rqueue)
    /\ pos' = 0
    /\ UNCHANGED <<tree, kwatches, nextWd, kqueue, watch_descriptor_to_path, wpc, fd,
                   yielded, ops>>
    /\ UNCHANGED notWatchVars

\* The record parse_events decodes next.
Parsed == ParseOne(data, pos, watch_descriptor_to_path)

\* The stream produces its next item: parse_events yields the next Event of
\* the byte string, or raises KeyError, which ends the stream with that
\* exception; gen() adds a watch when the Event is the creation of
\* what is now a directory, and the path is yielded.  (The singleton sets
\* bind the decoded record and the new watch state to their values.)
next_event ==
    /\ wpc = "iterating"
    /\ pos < Len(data)
    /\ \E r \in {Parsed} :
         IF ~r.known
           THEN /\ wpc' = "failed"
                /\ fd' = "closed"
                /\ UNCHANGED <<kwatches, nextWd, watch_descriptor_to_path, pos, yielded>>
           ELSE /\ \E st \in {IF HasFlag(r.event.mask, CREATE) /\ is_dir(r.event.path)
                                 THEN add_watch([kw |-> kwatches, next |-> nextWd,
                                                 map |-> watch_descriptor_to_path],
                                                r.event.path)
                                 ELSE [kw |-> kwatches, next |-> nextWd,
                                       map |-> watch_descriptor_to_path]} :
                      /\ kwatches' = st.kw
                      /\ nextWd' = st.next
                      /\ watch_descriptor_to_path' = st.map
                /\ pos' = r.pos
                /\ yielded' = Append(yielded, r.event)
                /\ UNCHANGED <<wpc, fd>>
    /\ UNCHANGED <<tree, kqueue, ops, rqueue, data>>
    /\ UNCHANGED notWatchVars

\* --- what other processes do to the watched tree once watch_all returned ---
FsOp(kind, p, newKind, mask) ==
    /\ wpc # "init"
    /\ Len(ops) < MaxOps
    /\ is_dir(Parent(p))
    /\ tree' = [tree EXCEPT ![p] = newKind]
    /\ kqueue' = Queued(kqueue, Parent(p), mask, Name(p))
    /\ ops' = Append(ops, [kind |-> kind, path |-> p,
                            seen |-> IsWatched(Parent(p)),
                            queued |-> kqueue' # kqueue,
                            early |-> wpc = "created",
                            syncs |-> Len(syncLog)])
    /\ UNCHANGED <<kwatches, nextWd, watch_descriptor_to_path, wpc, fd, rqueue, data,
                   pos, yielded>>
    /\ UNCHANGED notWatchVars

fs_create(p) == tree[p] = "absent" /\ FsOp("create", p, "file", CREATE)
fs_mkdir(p) == tree[p] = "absent" /\ FsOp("mkdir", p, "dir", CREATE + ISDIR)
fs_modify(p) == tree[p] = "file" /\ FsOp("modify", p, "file", MODIFY)
fs_delete(p) == tree[p] = "file" /\ FsOp("delete", p, "absent", DELETE)

WatchNext ==
    \/ watch_all
    \/ events_start
    \/ on_readable
    \/ events_next_data
    \/ next_event
    \/ \E p \in TreePaths : fs_create(p)
    \/ \E p \in TreePaths : fs_mkdir(p)
    \/ \E p \in TreePaths : fs_modify(p)
    \/ \E p \in TreePaths : fs_delete(p)

\* --- what the kernel does besides: removed watches and a full queue ---
\* Unread records the kernel keeps for one inotify instance
\* (fs.inotify.max_queued_events, scaled down).
MaxQueued == 2

\* rmdir of an empty directory: its own watch, if any, reports DELETE_SELF
\* and then IGNORED, and the kernel removes that watch; the watch of the
\* parent reports the deletion of the entry.
fs_rmdir(p) ==
    /\ wpc # "init"
    /\ Len(ops) < MaxOps
    /\ tree[p] = "dir"
    /\ \A c \in TreePaths : Parent(c) = p => tree[c] = "absent"
    /\ tree' = [tree EXCEPT ![p] = "absent"]
    /\ LET own == IF IsWatched(p)
                    THEN kqueue \o <<[wd |-> WdOf(p), mask |-> DELETE_SELF, name |-> ""],
                                     [wd |-> WdOf(p), mask |-> IGNORED, name |-> ""]>>
                    ELSE kqueue
       IN  kqueue' = Queued(own, Parent(p), DELETE + ISDIR, Name(p))
    /\ kwatches' = kwatches \ WatchedWd(p)
    /\ ops' = Append(ops, [kind |-> "rmdir", path |-> p,
                            seen |-> IsWatched(Parent(p)),
                            queued |-> kqueue' # kqueue,
                            early |-> wpc = "created",
                            syncs |-> Len(syncLog)])
    /\ UNCHANGED <<nextWd, watch_descriptor_to_path, wpc, fd, rqueue, data, pos, yielded>>
    /\ UNCHANGED notWatchVars

\* A watched file is modified while the queue is full: the kernel drops
\* the event and ends the queue with one Q_OVERFLOW record, whose watch
\* descriptor is -1.
fs_modify_overflow(p) ==
    /\ wpc # "init"
    /\ Len(ops) < MaxOps
    /\ tree[p] = "file"
    /\ IsWatched(Parent(p))
    /\ Len(kqueue) >= MaxQueued
    /\ kqueue' = IF Last(kqueue).mask = Q_OVERFLOW THEN kqueue
                  ELSE Append(kqueue, [wd |-> -1, mask |-> Q_OVERFLOW, name |-> ""])
    /\ ops' = Append(ops, [kind |-> "modify", path |-> p, seen |-> TRUE,
                            queued |-> FALSE, early |-> wpc = "created",
                            syncs |-> Len(syncLog)])
    /\ UNCHANGED <<tree, kwatches, nextWd, watch_descriptor_to_path, wpc, fd, rqueue,
                   data, pos, yielded>>
    /\ UNCHANGED notWatchVars

\* --- the stream is ended by its consumer and the object is used again ---
\* The consumer closes or cancels the stream of events().
events_close == events_close_step /\ UNCHANGED notWatchVars

\* events() is called again on the same object and its first item is
\* requested: async_fd_reader wraps self.fd with os.fdopen, which raises
\* OSError for a closed descriptor.
events_again ==
    /\ wpc = "closed"
    /\ IF fd = "open" THEN wpc' = "iterating" ELSE wpc' = "failed"
    /\ UNCHANGED <<tree, kwatches, nextWd, kqueue, watch_descriptor_to_path,
                   rqueue, data, pos, yielded, ops, fd>>
    /\ UNCHANGED notWatchVars

ReuseNext ==
    \/ watch_all
    \/ events_start
    \/ events_close
    \/ events_again
    \/ on_readable
    \/ events_next_data
    \/ next_event
    \/ \E p \in TreePaths : fs_create(p)
    \/ \E p \in TreePaths : fs_mkdir(p)

KernelNext ==
    \/ watch_all
    \/ events_start
    \/ on_readable
    \/ events_next_data
    \/ next_event
    \/ \E p \in TreePaths : fs_create(p)
    \/ \E p \in TreePaths : fs_mkdir(p)
    \/ \E p \in TreePaths : fs_modify(p)
    \/ \E p \in TreePaths : fs_rmdir(p)
    \/ \E p \in TreePaths : fs_modify_overflow(p)

\* ---------------- INotify.parse_events on its own ----------------
\* Records in a byte string given to parse_events.
MaxRecords == 2

\* The records of watches on root and root/a: events about an entry, with
\* its name, and events about the watched directory itself, without one.
Records ==
    [wd : {1, 2}, mask : {CREATE + ISDIR, DELETE_SELF}, name : Names \cup {""}]

RecordLists == UNION {[1..n -> Records] : n \in 0..MaxRecords}

\* An INotify with watches on root and root/a, and a byte string of whole
\* records as read from its descriptor.
ParseInit ==
    /\ tree = [p \in TreePaths |-> IF p = <<"root", "a">> THEN "dir" ELSE "absent"]
    /\ \E st \in {AddWatches([kw |-> {}, next |-> 1, map |-> <<>>],
                              <<root, <<"root", "a">>>>)} :
          /\ kwatches = st.kw
          /\ nextWd = st.next
          /\ watch_descriptor_to_path = st.map
    /\ records \in RecordLists
    /\ data = EncodeAll(records)
    /\ pos = 0
    /\ wpc = "created"
    /\ fd = "open"
    /\ kqueue = <<>>
    /\ rqueue = <<>>
    /\ yielded = <<>>
    /\ ops = <<>>

\* next() on the generator parse_events(data).
parse_events ==
    /\ pos < Len(data)
    /\ \E r \in {Parsed} :
          /\ r.known
          /\ pos' = r.pos
          /\ yielded' = Append(yielded, r.event)
    /\ UNCHANGED <<tree, kwatches, nextWd, kqueue, watch_descriptor_to_path, wpc, fd,
                   rqueue, data, ops>>
    /\ UNCHANGED notWatchVars

ParseNext == parse_events

\* ---------------- fs.walk ----------------
\* walk(root) calls in a run.
MaxWalks == 2

\* Every tree over TreePaths in which an entry exists only inside a directory.
WalkTrees ==
    {t \in [TreePaths -> {"absent", "file", "dir"}] :
        \A p \in TreePaths :
            (t[p] # "absent" /\ Parent(p) # root) => t[Parent(p)] = "dir"}

WalkInit ==
    /\ unreadable \in SUBSET {p \in TreePaths \cup {root} : is_dir(p)}
    /\ iterOrder \in Perms(Names)
    /\ walkCalls = 0
    /\ wstate = "none"
    /\ walkStack = <<>>
    /\ walked = <<>>
    /\ walk_roots = <<root>>
    /\ rootIdx = 0
    /\ wastate = "none"
    /\ pairs = <<>>

Front(s) == SubSeq(s, 1, Len(s) - 1)

\* root.iterdir(): the existing entries of directory p, in iteration order.
iterdir_first_only(p) ==
    LET here(n) == PathJoin(p, n) \in TreePaths /\ Exists(PathJoin(p, n))
        all == SelectSeq(iterOrder, here)
    IN  IF all = <<>> THEN <<>> ELSE <<Head(all)>>

iterdir(p) ==
    LET here(n) == PathJoin(p, n) \in TreePaths /\ Exists(PathJoin(p, n))
    IN  SelectSeq(iterOrder, here)

\* The generator resumes after a yield and runs to its next yield, to its
\* end or to an exception.  The innermost walk() lists its directory when
\* it is first resumed; a PermissionError of the listing leaves that walk()
\* and is caught by the except clause of the walk() that delegated to it.
RECURSIVE Resume_no_except(_)
Resume_no_except(stack) ==
    IF stack = <<>> THEN [stack |-> <<>>, out |-> <<>>, status |-> "done"]
    ELSE LET f == Last(stack) IN
         IF ~f.listed
           THEN IF f.dir \in unreadable
                  THEN [stack |-> <<>>, out |-> <<>>, status |-> "raised"]
                  ELSE Resume_no_except(Append(Front(stack),
                           [f EXCEPT !.listed = TRUE, !.rest = iterdir(f.dir)]))
         ELSE IF f.rest = <<>> THEN Resume_no_except(Front(stack))
         ELSE LET path == PathJoin(f.dir, Head(f.rest))
                  here == Append(Front(stack), [f EXCEPT !.rest = Tail(@)])
              IN  IF is_dir(path)
                    THEN [stack |-> Append(here, [dir |-> path, listed |-> FALSE,
                                                  rest |-> <<>>]),
                          out |-> path, status |-> "yield"]
                    ELSE [stack |-> here, out |-> path, status |-> "yield"]

RECURSIVE Resume(_)
Resume(stack) ==
    IF stack = <<>> THEN [stack |-> <<>>, out |-> <<>>, status |-> "done"]
    ELSE LET f == Last(stack) IN
         IF ~f.listed
           THEN IF f.dir \in unreadable
                  THEN IF Len(stack) = 1
                         THEN [stack |-> <<>>, out |-> <<>>, status |-> "raised"]
                         ELSE Resume(Front(stack))
                  ELSE Resume(Append(Front(stack),
                           [f EXCEPT !.listed = TRUE, !.rest = iterdir(f.dir)]))
         ELSE IF f.rest = <<>> THEN Resume(Front(stack))
         ELSE LET path == PathJoin(f.dir, Head(f.rest))
                  here == Append(Front(stack), [f EXCEPT !.rest = Tail(@)])
              IN  IF is_dir(path)
                    THEN [stack |-> Append(here, [dir |-> path, listed |-> FALSE,
                                                  rest |-> <<>>]),
                          out |-> path, status |-> "yield"]
                    ELSE [stack |-> here, out |-> path, status |-> "yield"]

\* walk(root) is called: a new generator, nothing of its body has run.
walk ==
    /\ walkCalls < MaxWalks
    /\ walkCalls' = walkCalls + 1
    /\ wstate' = "created"
    /\ walkStack' = <<>>
    /\ walked' = <<>>
    /\ UNCHANGED <<unreadable, iterOrder, walk_roots, rootIdx, wastate, pairs>>
    /\ UNCHANGED notWalkVars

\* next() on the generator: the first one yields root.
walk_next ==
    /\ wstate \in {"created", "running"}
    /\ IF wstate = "created"
         THEN /\ walked' = <<root>>
              /\ walkStack' = <<[dir |-> root, listed |-> FALSE, rest |-> <<>>]>>
              /\ wstate' = "running"
         ELSE \E r \in {Resume(walkStack)} :
                /\ walkStack' = r.stack
                /\ walked' = IF r.status = "yield" THEN Append(walked, r.out)
                                                   ELSE walked
                /\ wstate' = IF r.status = "yield" THEN "running" ELSE r.status
    /\ UNCHANGED <<unreadable, iterOrder, walkCalls, walk_roots, rootIdx, wastate, pairs>>
    /\ UNCHANGED notWalkVars

WalkNext ==
    \/ walk
    \/ walk_next

\* ---------------- fs.walk_all ----------------
\* The existing directories, any of which can be given as a root.
Dirs == {p \in TreePaths \cup {root} : is_dir(p)}

\* The roots arguments: one or two different directories, in either order.
RootLists ==
    {<<r>> : r \in Dirs} \cup {rs \in Dirs \X Dirs : rs[1] # rs[2]}

\* walk_all(roots) has been called: a generator whose body has not run.
WalkAllInit ==
    /\ unreadable \in SUBSET Dirs
    /\ iterOrder \in Perms(Names)
    /\ walkCalls = 0
    /\ wstate = "none"
    /\ walkStack = <<>>
    /\ walked = <<>>
    /\ walk_roots \in RootLists
    /\ rootIdx = 0
    /\ wastate = "created"
    /\ pairs = <<>>

\* The walk_all generator runs from one yield to the next, to its end or
\* to an exception: it takes the next path of walk(roots[idx]) and pairs
\* it with roots[idx]; when that walk ends it goes on to the next root,
\* whose walk yields the root itself first.
RECURSIVE walk_all_resume_nearest_dir(_, _)
walk_all_resume_nearest_dir(idx, stack) ==
    IF stack = <<>>
      THEN IF idx >= Len(walk_roots)
             THEN [idx |-> idx, stack |-> <<>>, out |-> <<>>, status |-> "done"]
             ELSE [idx |-> idx + 1,
                   stack |-> <<[dir |-> walk_roots[idx + 1], listed |-> FALSE, rest |-> <<>>]>>,
                   out |-> <<walk_roots[idx + 1], walk_roots[idx + 1]>>, status |-> "yield"]
      ELSE LET r == Resume(stack) IN
           IF r.status = "yield"
             THEN [idx |-> idx, stack |-> r.stack,
                   out |-> <<IF is_dir(r.out) THEN r.out ELSE Parent(r.out), r.out>>,
                   status |-> "yield"]
           ELSE IF r.status = "raised"
             THEN [idx |-> idx, stack |-> <<>>, out |-> <<>>, status |-> "raised"]
           ELSE walk_all_resume_nearest_dir(idx, <<>>)

RECURSIVE walk_all_resume(_, _)
walk_all_resume(idx, stack) ==
    IF stack = <<>>
      THEN IF idx >= Len(walk_roots)
             THEN [idx |-> idx, stack |-> <<>>, out |-> <<>>, status |-> "done"]
             ELSE [idx |-> idx + 1,
                   stack |-> <<[dir |-> walk_roots[idx + 1], listed |-> FALSE, rest |-> <<>>]>>,
                   out |-> <<walk_roots[idx + 1], walk_roots[idx + 1]>>, status |-> "yield"]
      ELSE LET r == Resume(stack) IN
           IF r.status = "yield"
             THEN [idx |-> idx, stack |-> r.stack,
                   out |-> <<walk_roots[idx], r.out>>, status |-> "yield"]
           ELSE IF r.status = "raised"
             THEN [idx |-> idx, stack |-> <<>>, out |-> <<>>, status |-> "raised"]
           ELSE walk_all_resume(idx, <<>>)

\* next() on the walk_all generator.
walk_all_next ==
    /\ wastate \in {"created", "running"}
    /\ \E r \in {walk_all_resume(rootIdx, walkStack)} :
          /\ rootIdx' = r.idx
          /\ walkStack' = r.stack
          /\ pairs' = IF r.status = "yield" THEN Append(pairs, r.out) ELSE pairs
          /\ wastate' = IF r.status = "yield" THEN "running" ELSE r.status
    /\ UNCHANGED <<unreadable, iterOrder, walkCalls, wstate, walked, walk_roots>>
    /\ UNCHANGED notWalkVars

WalkAllNext == walk_all_next

\* ---------------- cli.config.ConfigStorage ----------------
\* open() calls in a run.
MaxOpens == 2

\* Label names, and the characters a query string is made of.
Labels == {"a", "b"}
NoConfig == <<>>
Queries == [vendor : {<<>>, <<"v">>}, model : {<<>>}, serial : {<<>>}]

\* The strings a device_labels table of the file can hold: the forms the
\* tool writes, the empty string, and one that is not a query.
NoConfigFile == [exists |-> FALSE, table |-> <<>>]
TomlStrings == {<<>>, <<":", ":">>, <<"v", ":", ":">>, <<"v">>}
Documents == UNION {[ks -> TomlStrings] : ks \in SUBSET Labels}

\* value.split(":")
RECURSIVE split(_)
split(value) ==
    IF \A i \in DOMAIN value : value[i] # ":" THEN <<value>>
    ELSE LET i == CHOOSE k \in DOMAIN value :
                      value[k] = ":" /\ \A j \in 1..(k - 1) : value[j] # ":"
         IN  <<SubSeq(value, 1, i - 1)>> \o split(SubSeq(value, i + 1, Len(value)))

\* Query.parse; ok is FALSE when it raises ParseError.
parse(value) ==
    IF value = <<>>
      THEN [ok |-> TRUE, query |-> [vendor |-> <<>>, model |-> <<>>, serial |-> <<>>]]
    ELSE LET parts == split(value)
         IN  IF Len(parts) # 3
               THEN [ok |-> FALSE, query |-> <<>>]
               ELSE [ok |-> TRUE,
                     query |-> [vendor |-> parts[1], model |-> parts[2],
                                serial |-> parts[3]]]

\* Query.as_str
as_str(q) == q.vendor \o <<":">> \o q.model \o <<":">> \o q.serial

\* Config.from_toml and Config.to_toml, a Config being its device_labels.
from_toml(document) ==
    IF \E k \in DOMAIN document : ~parse(document[k]).ok
      THEN [ok |-> FALSE, config |-> NoConfig]
      ELSE [ok |-> TRUE, config |-> [k \in DOMAIN document |-> parse(document[k]).query]]

to_toml(c) == [k \in DOMAIN c |-> as_str(c[k])]

\* The configuration path before the first open(): any file the user may
\* have, or none, with or without the directory it belongs in.
ConfigInit ==
    /\ cfgFile \in {NoConfigFile} \cup {[exists |-> TRUE, table |-> t] : t \in Documents}
    /\ cfgParent \in IF cfgFile.exists THEN {TRUE} ELSE {TRUE, FALSE}
    /\ cfgWrites = 0
    /\ config = NoConfig
    /\ old_config = NoConfig
    /\ opc = "none"
    /\ opens = 0

\* with storage.open() as config: the file is loaded if it exists and the
\* Config is yielded to the with-body; a file that does not parse makes
\* open() raise before it yields.
open_enter ==
    /\ opc # "body"
    /\ opens < MaxOpens
    /\ opens' = opens + 1
    /\ LET document == IF cfgFile.exists THEN cfgFile.table ELSE <<>>
           loaded == from_toml(document)
       IN  IF ~loaded.ok
             THEN opc' = "raised" /\ UNCHANGED <<config, old_config>>
             ELSE opc' = "body" /\ config' = loaded.config /\ old_config' = loaded.config
    /\ UNCHANGED <<cfgParent, cfgFile, cfgWrites>>
    /\ UNCHANGED notCfgVars

\* The with-body binds a label (config.device_labels[k] = DeviceLabel(q)).
body_set(k, q) ==
    /\ opc = "body"
    /\ config' = [l \in DOMAIN config \cup {k} |-> IF l = k THEN q ELSE config[l]]
    /\ UNCHANGED <<cfgParent, cfgFile, cfgWrites, old_config, opc, opens>>
    /\ UNCHANGED notCfgVars

\* The with-body removes a label (del config.device_labels[k]).
body_del(k) ==
    /\ opc = "body"
    /\ k \in DOMAIN config
    /\ config' = [l \in DOMAIN config \ {k} |-> config[l]]
    /\ UNCHANGED <<cfgParent, cfgFile, cfgWrites, old_config, opc, opens>>
    /\ UNCHANGED notCfgVars

\* The with-body ends normally: open() resumes after its yield, compares
\* and, if the Config changed, creates the parent and writes the file.
body_return_always_write ==
    /\ opc = "body"
    /\ opc' = "exited"
    /\ cfgParent' = TRUE
    /\ cfgFile' = [exists |-> TRUE, table |-> to_toml(config)]
    /\ cfgWrites' = cfgWrites + 1
    /\ UNCHANGED <<config, old_config, opens>>
    /\ UNCHANGED notCfgVars

body_return ==
    /\ opc = "body"
    /\ opc' = "exited"
    /\ IF old_config = config
         THEN UNCHANGED <<cfgParent, cfgFile, cfgWrites>>
         ELSE /\ cfgParent' = TRUE
              /\ cfgFile' = [exists |-> TRUE, table |-> to_toml(config)]
              /\ cfgWrites' = cfgWrites + 1
    /\ UNCHANGED <<config, old_config, opens>>
    /\ UNCHANGED notCfgVars

\* The with-body raises (an exception, or exit(1) as in label_add): the
\* exception is thrown into open() at its yield, which has no handler, so
\* nothing after the yield runs and the exception leaves the with statement.
body_raise ==
    /\ opc = "body"
    /\ opc' = "raised"
    /\ UNCHANGED <<cfgParent, cfgFile, cfgWrites, config, old_config, opens>>
    /\ UNCHANGED notCfgVars

ConfigNext ==
    \/ open_enter
    \/ \E k \in Labels, q \in Queries : body_set(k, q)
    \/ \E k \in Labels : body_del(k)
    \/ body_return
    \/ body_raise

\* ---------------- fs.inotify.retry_on_eintr ----------------
\* libc calls in a run.
MaxLibcCalls == 4

EINTR == 4
\* Other errno values a libc call can fail with (ENOENT, ENOSPC).
OtherErrnos == {2, 28}
\* Values a libc call returns on success (descriptors).
Successes == {0, 3}

EintrInit ==
    /\ libcCalls = 0
    /\ attempts = <<>>
    /\ rpc = "none"
    /\ result = -1
    /\ raised_errno = 0
    /\ ctypes_errno \in {0, EINTR}

\* A function wrapped by retry_on_eintr is called.
inner ==
    /\ rpc # "calling"
    /\ libcCalls < MaxLibcCalls
    /\ rpc' = "calling"
    /\ attempts' = <<>>
    /\ UNCHANGED <<result, raised_errno, ctypes_errno, libcCalls>>
    /\ UNCHANGED notEintrVars

\* What one round of the while loop leads to, given what f returned and
\* what get_errno() reports afterwards.
inner_round_retry_all(res, e) ==
    IF res # -1 THEN "returned" ELSE "calling"

inner_round(res, e) ==
    IF res # -1 THEN "returned"
    ELSE IF e # EINTR THEN "raised"
    ELSE "calling"

\* One round of the while loop: f is called and either succeeds, leaving
\* errno as it was, or returns -1 with errno set to e.
libc_call(res, e) ==
    /\ rpc = "calling"
    /\ libcCalls < MaxLibcCalls
    /\ libcCalls' = libcCalls + 1
    /\ ctypes_errno' = IF res = -1 THEN e ELSE ctypes_errno
    /\ attempts' = Append(attempts, <<res, ctypes_errno'>>)
    /\ rpc' = inner_round(res, ctypes_errno')
    /\ result' = IF rpc' = "returned" THEN res ELSE result
    /\ raised_errno' = IF rpc' = "raised" THEN ctypes_errno' ELSE raised_errno
    /\ UNCHANGED notEintrVars

EintrNext ==
    \/ inner
    \/ \E res \in Successes \cup {-1}, e \in OtherErrnos \cup {EINTR} : libc_call(res, e)

\* ---------------- cli.commands.upload ----------------
CmdInit ==
    /\ mode \in {"watch", "single-shot"}
    /\ cpc = "initial"
    /\ syncLog = <<>>

\* sync() as called in state `phase`: fs.upload(source_dirs, mountpoint) on
\* the whole source tree; batchNo is the batch that led to the call (0 for
\* the initial sync).  An exception of upload() leaves the command.
sync(phase, batchNo, after) ==
    /\ upload_step
    /\ syncLog' = Append(syncLog, [phase |-> phase, batch |-> batchNo,
                                   dirs |-> source_dirs,
                                   outcome |-> lastRun'.outcome])
    /\ cpc' = IF lastRun'.outcome = "ok" THEN after ELSE "crashed"

\* "Always do at least one upload at the start": sync(), then exit in
\* single-shot mode; otherwise create the event stream, which calls
\* fs.watch_all(source_dirs) at once, and go on to run watch_loop.
initial_sync ==
    /\ cpc = "initial"
    /\ sync("Initial", 0, IF mode = "single-shot" THEN "exited" ELSE "synced")
    /\ UNCHANGED <<mode, batchVars, watchVars, utilVars>>

\* events = time_batched(fs.watch_all(source_dirs), ...): only now, after the
\* initial sync has returned, the INotify object is created and the source
\* directories are walked and watched.  time_batched is an async generator:
\* creating it runs none of its body.
create_events ==
    /\ cpc = "synced"
    /\ cpc' = "loop"
    /\ watch_all_step
    /\ UNCHANGED <<mode, syncLog, batchVars, uploadVars, utilVars>>

\* watch_loop: modified_paths = await anext(events).  The first request
\* creates queue_task, whose first step the event loop runs before any
\* other callback: it enters the watch stream and registers the reader.
watch_loop_await ==
    /\ cpc = "loop"
    /\ anext_step
    /\ cpc' = "awaiting"
    /\ IF tbpc = "unstarted" THEN events_start_step ELSE UNCHANGED watchVars
    /\ UNCHANGED <<mode, syncLog, uploadVars, utilVars>>

\* watch_loop: the awaited batch has been yielded; sync()
watch_loop_sync_unprompted ==
    /\ cpc = "awaiting"
    /\ sync("Watching", Len(emitted), "awaiting")
    /\ UNCHANGED <<mode, batchVars, watchVars, utilVars>>

watch_loop_sync ==
    /\ cpc = "awaiting"
    /\ tbpc = "suspended"
    /\ sync("Watching", Len(emitted), "loop")
    /\ UNCHANGED <<mode, batchVars, watchVars, utilVars>>

\* The watch stream yields path x to save_to_queue.
fetch(x) ==
    /\ wpc = "iterating"
    /\ save_to_queue(x)

\* A kernel call of the watch stream fails with an error other than EINTR
\* (retry_on_eintr raises OSError, e.g. inotify_add_watch for a new
\* directory): the exception leaves gen(), events() and save_to_queue, so
\* queue_task ends with it; nothing awaits queue_task at this point.
source_fails ==
    /\ queue_task = "running"
    /\ cpc \in {"loop", "awaiting"}
    /\ queue_task' = "failed"
    /\ events_close_step
    /\ UNCHANGED <<sourceItems, queue, batch, emitted, tbpc, delays,
                   delaysDone, duringDelay>>
    /\ UNCHANGED <<uploadVars, cmdVars, utilVars>>

\* KeyboardInterrupt during the initial sync, which is not inside the
\* try block: the exception leaves upload().
keyboard_interrupt_initial ==
    /\ cpc \in {"initial", "synced"}
    /\ cpc' = "aborted"
    /\ UNCHANGED <<mode, syncLog, batchVars, uploadVars, watchVars, utilVars>>

\* KeyboardInterrupt after the stream was created and before watch_loop
\* made its first step: before the try block the exception leaves
\* upload(); inside asyncio.run the task is cancelled before it starts, the
\* generators never run and the except clause reports the cancellation.
keyboard_interrupt_unstarted ==
    /\ cpc = "loop"
    /\ tbpc = "unstarted"
    /\ cpc' \in {"aborted", "cancelled"}
    /\ UNCHANGED <<mode, syncLog, batchVars, uploadVars, watchVars, utilVars>>

\* KeyboardInterrupt while watch_loop waits for a batch or runs a sync (the
\* cancellation is then delivered at the next await): CancelledError is
\* thrown into time_batched, whose finally block cancels queue_task and
\* awaits it.
keyboard_interrupt_watching ==
    /\ cpc \in {"loop", "awaiting"}
    /\ tbpc \in {"get", "delay", "suspended"}
    /\ cpc' = "cancelling"
    /\ tbpc' = "finalizing"
    /\ queue_task' = IF queue_task = "running" THEN "cancelling" ELSE queue_task
    /\ UNCHANGED <<sourceItems, queue, batch, emitted, delays, delaysDone,
                   duringDelay>>
    /\ UNCHANGED <<mode, syncLog, uploadVars, watchVars, utilVars>>

\* queue_task's next step receives the CancelledError, which passes through
\* the watch stream and ends the task.
queue_task_cancelled ==
    /\ queue_task = "cancelling"
    /\ queue_task' = "cancelled"
    /\ events_close_step
    /\ UNCHANGED <<sourceItems, queue, batch, emitted, tbpc, delays,
                   delaysDone, duringDelay>>
    /\ UNCHANGED <<uploadVars, cmdVars, utilVars>>

\* `await queue_task` in the finally block returns: a CancelledError is
\* suppressed and asyncio.run raises KeyboardInterrupt into the except
\* clause; the exception of a failed queue_task is raised instead and
\* leaves upload().
time_batched_finalized ==
    /\ tbpc = "finalizing"
    /\ queue_task # "cancelling"
    /\ tbpc' = "closed"
    /\ cpc' = IF queue_task = "failed" THEN "crashed" ELSE "cancelled"
    /\ UNCHANGED <<sourceItems, queue, batch, emitted, queue_task, delays,
                   delaysDone, duringDelay>>
    /\ UNCHANGED <<mode, syncLog, uploadVars, watchVars, utilVars>>

CmdNext ==
    \/ initial_sync
    \/ create_events
    \/ watch_loop_await
    \/ watch_loop_sync
    \/ \E x \in Items : fetch(x)
    \/ source_fails
    \/ next_batch_first
    \/ next_batch_drain
    \/ keyboard_interrupt_initial
    \/ keyboard_interrupt_unstarted
    \/ keyboard_interrupt_watching
    \/ queue_task_cancelled
    \/ time_batched_finalized

\* ---------------- a watch-mode session with source changes ----------------
\* The source directory of the session holds one file.
SessionTree == [p \in TreePaths |-> IF p = <<"root", "a">> THEN "file" ELSE "absent"]

SessionInit ==
    /\ CmdInit
    /\ mode = "watch"
    /\ tree = SessionTree
    /\ WatcherInit

\* A source file is modified while the command has no INotify object yet
\* (during the initial sync, or between it and the call of fs.watch_all):
\* no watch exists, so the kernel records nothing.
fs_modify_unwatched(p) ==
    /\ cpc \in {"initial", "synced"}
    /\ wpc = "init"
    /\ Len(ops) < MaxOps
    /\ tree[p] = "file"
    /\ ops' = Append(ops, [kind |-> "modify", path |-> p, seen |-> FALSE,
                            queued |-> FALSE, early |-> FALSE,
                            syncs |-> Len(syncLog)])
    /\ UNCHANGED <<tree, kwatches, nextWd, kqueue, watch_descriptor_to_path, wpc, fd,
                   rqueue, data, pos, yielded>>
    /\ UNCHANGED notWatchVars

\* save_to_queue receives the next path yielded by the watch stream
\* (async for x in source: queue.put_nowait(x)).
fetch_event ==
    /\ Len(sourceItems) < Len(yielded)
    /\ save_to_queue(yielded[Len(sourceItems) + 1].path)

SessionNext ==
    \/ initial_sync
    \/ create_events
    \/ watch_loop_await
    \/ watch_loop_sync
    \/ on_readable
    \/ events_next_data
    \/ next_event
    \/ fetch_event
    \/ next_batch_first
    \/ next_batch_drain
    \/ \E p \in TreePaths : fs_modify(p)
    \/ \E p \in TreePaths : fs_modify_unwatched(p)

\* ---------------- specifications ----------------
BatchNext ==
    \/ \E x \in Items : save_to_queue(x)
    \/ source_exhausted
    \/ anext
    \/ next_batch_first
    \/ next_batch_drain

\* Each specification starts the other subsystems in a fixed idle state.
UploadIdle == UploadInit /\ destGranularity = 2 /\ srcDirs[source_dirs[1]] = {}
BatchIdle == BatchInit
WatchIdle == WatchInit /\ \A p \in TreePaths : tree[p] = "absent"
CmdIdle == mode = "watch" /\ cpc = "none" /\ syncLog = <<>>
WalkIdle == WalkInit /\ unreadable = {} /\ iterOrder = SetToSeq(Names)
ConfigIdle == ConfigInit /\ cfgFile = NoConfigFile /\ cfgParent
EintrIdle == EintrInit /\ ctypes_errno = 0
ParseIdle == records = <<>>

BatchSpecInit == BatchInit /\ UploadIdle /\ WatchIdle /\ CmdIdle /\ WalkIdle /\ ConfigIdle /\ EintrIdle /\ ParseIdle

BatchSpec == BatchSpecInit /\ [][BatchNext]_vars

\* The consumer keeps requesting batches and the event loop keeps running
\* the generator once it is ready; the source is free to stop at any time.
BatchFairSpec ==
    /\ BatchSpec
    /\ WF_vars(anext)
    /\ WF_vars(next_batch_first)
    /\ WF_vars(next_batch_drain)

UploadSpecInit == UploadInit /\ BatchIdle /\ WatchIdle /\ CmdIdle /\ WalkIdle /\ ConfigIdle /\ EintrIdle /\ ParseIdle

UploadSpec == UploadSpecInit /\ [][UploadNext]_vars

UploadOnceSpecInit == UploadOnceInit /\ BatchIdle /\ WatchIdle /\ CmdIdle /\ WalkIdle /\ ConfigIdle /\ EintrIdle /\ ParseIdle

UploadOnceSpec == UploadOnceSpecInit /\ [][UploadOnceNext]_vars

MountSpecInit == MountInit /\ BatchIdle /\ WatchIdle /\ CmdIdle /\ WalkIdle /\ ConfigIdle /\ EintrIdle /\ ParseIdle

MountSpec == MountSpecInit /\ [][MountNext]_vars

WatchSpecInit == WatchInit /\ BatchIdle /\ UploadIdle /\ CmdIdle /\ WalkIdle /\ ConfigIdle /\ EintrIdle /\ ParseIdle

WatchSpec == WatchSpecInit /\ [][WatchNext]_vars

\* The event loop keeps running the reader callback and the stream's
\* consumer keeps requesting items; the other processes are free to stop.
WatchFairSpec ==
    /\ WatchSpec
    /\ WF_vars(watch_all)
    /\ WF_vars(events_start)
    /\ WF_vars(on_readable)
    /\ WF_vars(events_next_data)
    /\ WF_vars(next_event)

\* A watch session in which directories are also removed and the kernel's
\* queue can fill up.
KernelSpec == WatchSpecInit /\ [][KernelNext]_vars

\* A watch session in which the consumer ends the stream while the INotify
\* object stays in use.
ReuseSpec == WatchSpecInit /\ [][ReuseNext]_vars

\* walk() over every small tree, with any set of unreadable directories.
WalkSpecInit ==
    /\ tree \in WalkTrees
    /\ WatcherInit
    /\ WalkInit
    /\ BatchIdle /\ UploadIdle /\ CmdIdle /\ ConfigIdle /\ EintrIdle /\ ParseIdle

WalkSpec == WalkSpecInit /\ [][WalkNext]_vars

\* walk_all() over every small tree and every list of roots in it.
WalkAllSpecInit ==
    /\ tree \in WalkTrees
    /\ WatcherInit
    /\ WalkAllInit
    /\ BatchIdle /\ UploadIdle /\ CmdIdle /\ ConfigIdle /\ EintrIdle /\ ParseIdle

WalkAllSpec == WalkAllSpecInit /\ [][WalkAllNext]_vars

\* ConfigStorage.open() used repeatedly on one configuration path.
ConfigSpecInit ==
    ConfigInit /\ BatchIdle /\ UploadIdle /\ WatchIdle /\ CmdIdle /\ WalkIdle
    /\ EintrIdle /\ ParseIdle

ConfigSpec == ConfigSpecInit /\ [][ConfigNext]_vars

\* Calls of a libc function wrapped by retry_on_eintr, the kernel being
\* free to make any call fail with any errno.
EintrSpecInit ==
    EintrInit /\ BatchIdle /\ UploadIdle /\ WatchIdle /\ CmdIdle /\ WalkIdle
    /\ ConfigIdle /\ ParseIdle

EintrSpec == EintrSpecInit /\ [][EintrNext]_vars

\* parse_events applied to every byte string of up to MaxRecords records.
ParseSpecInit ==
    ParseInit /\ BatchIdle /\ UploadIdle /\ CmdIdle /\ WalkIdle /\ ConfigIdle
    /\ EintrIdle

ParseSpec == ParseSpecInit /\ [][ParseNext]_vars

\* The command of the upload CLI: initial sync, then one sync per batch
\* of time_batched, whose consumer is watch_loop.
CmdSpecInit == CmdInit /\ BatchInit /\ UploadInit /\ WatchIdle /\ WalkIdle /\ ConfigIdle /\ EintrIdle /\ ParseIdle

CmdSpec == CmdSpecInit /\ [][CmdNext]_vars

\* The command and the event loop keep running their own steps; file
\* activity, kernel errors and keyboard interrupts are free not to happen.
CmdFairSpec ==
    /\ CmdSpec
    /\ WF_vars(initial_sync)
    /\ WF_vars(create_events)
    /\ WF_vars(watch_loop_await)
    /\ WF_vars(watch_loop_sync)
    /\ WF_vars(next_batch_first)
    /\ WF_vars(next_batch_drain)
    /\ WF_vars(queue_task_cancelled)
    /\ WF_vars(time_batched_finalized)

\* The session is neither cancelled nor does a sync fail; the event loop
\* keeps running every task and callback that is ready.
SessionSpecInit == SessionInit /\ BatchInit /\ UploadIdle /\ WalkIdle /\ ConfigIdle /\ EintrIdle /\ ParseIdle

SessionSpec == SessionSpecInit /\ [][SessionNext]_vars

SessionFairSpec ==
    /\ SessionSpec
    /\ WF_vars(initial_sync)
    /\ WF_vars(create_events)
    /\ WF_vars(watch_loop_await)
    /\ WF_vars(watch_loop_sync)
    /\ WF_vars(on_readable)
    /\ WF_vars(events_next_data)
    /\ WF_vars(next_event)
    /\ WF_vars(fetch_event)
    /\ WF_vars(next_batch_first)
    /\ WF_vars(next_batch_drain)

\* ---------------- claims: time_batched ----------------

\* Every item the source has yielded is in exactly one place, in order: the
\* emitted batches, then the batch being built, then the queue.
Conservation == Flatten(emitted) \o batch \o queue = sourceItems

\* C1: the batches emitted by time_batched, concatenated in emission order,
\* are the source's items in the order produced, none lost and none
\* duplicated; with a consumer that keeps requesting batches every item the
\* source produced ends up in an emitted batch.
C1_BatchesReproduceSource ==
    /\ [](Conservation /\ Len(Flatten(emitted)) <= Len(sourceItems))
    /\ <>[](Flatten(emitted) = sourceItems)

\* Several batches have been emitted and together they hold every item of a
\* source that produced at least three.
C1_Witness ==
    /\ Len(emitted) >= 2
    /\ Len(sourceItems) >= 3
    /\ Flatten(emitted) = sourceItems

\* C2: every batch emitted by time_batched holds at least one item.
C2_NoEmptyBatch == \A i \in DOMAIN emitted : Len(emitted[i]) >= 1

\* A batch has been emitted and the next request waits on an empty queue.
C2_Witness == emitted # <<>> /\ tbpc = "get" /\ queue = <<>>

\* C6: one delay is started per batch, when the batch holds exactly its
\* first item; items that arrive while the delay is pending join that batch
\* without starting another delay; the batch is emitted when the delay
\* completes.
C6_OneDelayPerBatch ==
    /\ delays = Len(emitted) + (IF tbpc = "delay" THEN 1 ELSE 0)
    /\ delaysDone = Len(emitted)
    /\ tbpc = "delay" => Len(batch) = 1 /\ IsSuffix(duringDelay, queue)
    /\ (tbpc # "delay" /\ emitted # <<>>) => IsSuffix(duringDelay, Last(emitted))

\* A batch was emitted that holds two items which arrived during its delay.
C6_Witness ==
    /\ tbpc = "suspended"
    /\ Len(duringDelay) >= 2
    /\ Len(Last(emitted)) >= 3
    /\ delays = Len(emitted)

\* ---------------- claims: fs.upload ----------------

\* C3 (on a mountpoint with FAT timestamps): a second upload() with no
\* change to the source tree since a first, successful one completes and
\* copies no file.
C3_SecondRunCopiesNothing ==
    (/\ uploads >= 2
     /\ destGranularity = 2
     /\ lastRun.prevOutcome = "ok"
     /\ lastRun.changedBefore = {})
    => (lastRun.outcome = "ok" /\ lastRun.copied = <<>>)

\* The edit e was the only one between two upload() calls, moved the mtime
\* of an existing, non-hidden file into a later 2-second window, and no
\* other source directory holds a file at the same relative path.
SingleVisibleEdit(e) ==
    /\ uploads >= 2
    /\ changed = {}
    /\ destGranularity = 2
    /\ lastRun.prevOutcome = "ok"
    /\ lastRun.changedBefore = {e}
    /\ e.existed
    /\ e.newMtime \div 2 > e.oldMtime \div 2
    /\ ~IsHidden(e.rel)
    /\ \A r \in Roots \ {e.root} : ~src[r][e.rel].exists

\* C4 (for an edit the timestamp comparison can see): when exactly one
\* source file was modified after an upload, the next upload copies that
\* file, the destination then holds the new content, and no other file is
\* copied.
C4_OnlyModifiedFileCopied ==
    \A e \in lastRun.changedBefore :
        SingleVisibleEdit(e) =>
            /\ lastRun.copied = << <<e.root, e.rel>> >>
            /\ dst[e.rel].content = src[e.root][e.rel].content

Quiescent ==
    /\ wpc = "iterating"
    /\ kqueue = <<>>
    /\ rqueue = <<>>
    /\ pos >= Len(data)

WasYielded(p) == \E k \in DOMAIN yielded : yielded[k].path = p

\* C7: when directory root/a is created during the session and root/a/b
\* is created as a file afterwards, the stream yields an event for root/a/b;
\* stated at the point where nothing is left to be read.
C7_FileInNewDirYielded ==
    (/\ Quiescent
     /\ \E i, j \in DOMAIN ops :
          /\ i < j
          /\ ops[i].kind = "mkdir" /\ ops[i].path = <<"root", "a">>
          /\ ops[j].kind = "create" /\ ops[j].path = <<"root", "a", "b">>)
    => WasYielded(<<"root", "a", "b">>)

\* C8: once the stream has consumed every queued event, every directory
\* that exists below the root has a watch that the binding knows.
C8_EveryDirWatched ==
    Quiescent =>
        \A p \in TreePaths \cup {root} :
            is_dir(p) =>
                /\ IsWatched(p)
                /\ \E w \in DOMAIN watch_descriptor_to_path :
                       watch_descriptor_to_path[w] = p

\* The flag the kernel reports for an operation.
OpFlag(kind) ==
    IF kind = "modify" THEN MODIFY ELSE IF kind = "delete" THEN DELETE ELSE CREATE

\* The operations for which the kernel queued a record of their own (an
\* operation in a watched directory that repeats the newest unread record
\* is reported by that record).
WasQueued(o) == o.queued
Reported == SelectSeq(ops, WasQueued)

C10_OneSyncPerBatch ==
    mode = "watch" =>
        /\ cpc = "initial" => (syncLog = <<>> /\ tbpc = "unstarted")
        /\ (cpc \in {"synced", "loop", "awaiting"} \/ tbpc # "unstarted")
               => (syncLog # <<>> /\ syncLog[1].phase = "Initial")
        /\ \A i \in DOMAIN syncLog :
               /\ syncLog[i].dirs = source_dirs
               /\ i >= 2 => (syncLog[i].phase = "Watching" /\ syncLog[i].batch = i - 1)
        /\ Len(syncLog) <= 1 + Len(emitted)
        /\ (cpc = "loop" \/ (cpc = "awaiting" /\ tbpc # "suspended"))
               => Len(syncLog) = 1 + Len(emitted)

\* Two batches have been received and three syncs made, and the command
\* waits for the next batch.
C10_Witness ==
    /\ mode = "watch"
    /\ cpc = "awaiting"
    /\ tbpc = "get"
    /\ Len(emitted) = 2
    /\ Len(syncLog) = 3

\* C11: in watch mode a keyboard interrupt never leaves the command as an
\* unhandled exception, at whatever point it arrives: neither the
\* KeyboardInterrupt itself nor an exception raised while the
\* cancellation is cleaned up.
C11_InterruptEndsCleanly ==
    mode = "watch" =>
        /\ cpc # "aborted"
        /\ ~(cpc = "crashed" /\ tbpc = "closed")

\* C12: when the cancelled watch loop has returned control to the command,
\* queue_task has finished, the reader callback is removed and the inotify
\* descriptor is closed.
C12_CancellationReleasesAll ==
    cpc = "cancelled" =>
        /\ queue_task \notin {"running", "cancelling"}
        /\ wpc # "iterating"
        /\ wpc \notin {"created", "iterating"}

\* C13: once the watch stream has failed with an OSError, the error
\* reaches the caller of the watch loop and ends the session.
C13_StreamErrorEndsSession ==
    (queue_task = "failed") ~> (cpc = "crashed")

\* C14: after a sync that failed in the Watching state the command is
\* still in the watch loop (or was cancelled from there by the user).
C14_FailedSyncKeepsWatching ==
    (/\ syncLog # <<>>
     /\ Last(syncLog).phase = "Watching"
     /\ Last(syncLog).outcome # "ok")
    => cpc \in {"loop", "awaiting", "cancelling", "cancelled"}

\* ---------------- claims: fs.upload applied once ----------------

\* upload() has been applied once, to an empty mountpoint, and the source
\* directories are as they were during the call.
UploadedOnce == uploads = 1 /\ changed = {}

\* C15: when both source directories hold a file at the same relative
\* path, upload raises no error and the destination holds the content of
\* the file of the later directory.
C15_LaterSourceDirWins ==
    (UploadedOnce /\ missingDirs = {} /\ copyFails = {}
        /\ \A r \in Roots : srcDirs[r] = {})
    => \A rel \in RelFiles :
           (/\ ~IsHidden(rel)
            /\ \A r \in Roots : src[r][rel].exists)
           => /\ lastRun.outcome = "ok"
              /\ dst[rel].exists
              /\ dst[rel].content = src[source_dirs[Len(source_dirs)]][rel].content

\* C16: after upload into an empty mountpoint the mountpoint holds a file
\* at exactly the relative paths of the source files whose name does not
\* start with a dot.
C16_MergedContents ==
    (UploadedOnce /\ missingDirs = {} /\ copyFails = {})
    => \A rel \in RelFiles :
           dst[rel].exists <=>
               (~IsHidden(rel) /\ \E r \in Roots : src[r][rel].exists)

\* The position in the traversal at which a copy raised.
RaisedAt == {i \in DOMAIN lastRun.decisions : lastRun.decisions[i].raised}

\* C17 as stated: when a copy raises, upload raises and no file later in
\* the traversal is copied.
C17_FailFast ==
    UploadedOnce =>
        \A i \in RaisedAt :
            /\ lastRun.outcome # "ok"
            /\ \A j \in DOMAIN lastRun.decisions :
                   j > i => ~lastRun.decisions[j].copied

\* C17 amended: when a copy raises, upload raises; nothing follows the
\* failure of a top-level file, and only files of the same subdirectory
\* of the same source directory follow a failure inside a subdirectory.
C17_ErrorRaisedAfterSubtree ==
    UploadedOnce =>
        \A i \in RaisedAt :
            /\ lastRun.outcome # "ok"
            /\ \A j \in DOMAIN lastRun.decisions :
                   j > i =>
                       /\ ~IsTopLevel(lastRun.decisions[i].rel)
                       /\ lastRun.decisions[j].root = lastRun.decisions[i].root
                       /\ ~IsTopLevel(lastRun.decisions[j].rel)
                       /\ lastRun.decisions[j].rel[1] = lastRun.decisions[i].rel[1]

\* A copy inside a subdirectory raised and a later file of the same
\* subdirectory was copied in the same run, which ended with an error.
C17_Witness ==
    /\ UploadedOnce
    /\ lastRun.outcome = "Error"
    /\ \E i \in RaisedAt : \E j \in DOMAIN lastRun.decisions :
           j > i /\ lastRun.decisions[j].copied

\* C18: upload with a source directory that does not exist does not
\* return normally.
C18_MissingDirRaises ==
    (uploads > 0 /\ missingDirs # {}) => lastRun.outcome # "ok"

\* The second source directory is missing: the first one was copied and
\* then upload raised FileNotFoundError.
C18_Witness ==
    /\ uploads > 0
    /\ missingDirs = {source_dirs[2]}
    /\ lastRun.copied # <<>>
    /\ lastRun.outcome = "FileNotFoundError"

\* ---------------- claims: fs.walk ----------------

\* p is q or lies below q.
IsBelowOrAt(p, q) == Len(p) >= Len(q) /\ SubSeq(p, 1, Len(q)) = q

\* The paths a traversal has to yield: root and every existing entry that
\* is not inside an unreadable directory.
Reachable ==
    {root} \cup {p \in TreePaths :
                   /\ Exists(p)
                   /\ \A q \in unreadable : ~IsBelowOrAt(Parent(p), q)}

\* C19: with every directory readable, the generator yields root first,
\* no path twice and a directory before anything below it, in the first
\* and in every later call of walk(root); when it ends it has yielded
\* root and every existing entry.
C19_WalkYieldsEveryPathOnce ==
    unreadable = {} =>
        /\ wstate # "raised"
        /\ walked # <<>> => walked[1] = root
        /\ \A i, j \in DOMAIN walked :
               /\ (i # j => walked[i] # walked[j])
               /\ (i < j => ~IsBelowOrAt(walked[i], walked[j]))
        /\ \A i \in DOMAIN walked : walked[i] \in Reachable
        /\ wstate = "done" => {walked[i] : i \in DOMAIN walked} = Reachable

\* The second call of walk(root) has gone through a tree with a nested
\* directory: four paths were yielded.
C19_Witness ==
    /\ unreadable = {}
    /\ walkCalls = 2
    /\ wstate = "done"
    /\ Len(walked) = 4

\* C20: when only subdirectories are unreadable walk never raises, and
\* when it ends it has yielded every path that is not inside an unreadable
\* subdirectory, each once.
C20_UnreadableSubdirSkipped ==
    root \notin unreadable =>
        /\ wstate # "raised"
        /\ \A i, j \in DOMAIN walked : i # j => walked[i] # walked[j]
        /\ wstate = "done" => {walked[i] : i \in DOMAIN walked} = Reachable

\* root/a is unreadable and holds an entry; it came first in the listing
\* of root and the traversal went on to yield its sibling root/b.
C20_Witness ==
    /\ unreadable = {<<"root", "a">>}
    /\ Exists(<<"root", "a", "b">>)
    /\ wstate = "done"
    /\ walked = <<root, <<"root", "a">>, <<"root", "b">>>>

\* ---------------- claims: fs.walk_all ----------------

\* The index in roots of directory r.
RootPos(r) == CHOOSE i \in DOMAIN walk_roots : walk_roots[i] = r

\* The paths walk(r) has to yield: r and every existing entry below it that
\* is not inside an unreadable directory of the traversal.
ReachableFrom(r) ==
    {r} \cup {p \in TreePaths :
                /\ Exists(p)
                /\ Len(p) > Len(r)
                /\ IsBelowOrAt(p, r)
                /\ \A q \in unreadable :
                       IsBelowOrAt(q, r) => ~IsBelowOrAt(Parent(p), q)}

\* C21: every pair yielded by walk_all(roots) has one of the given roots
\* as its first element and a path at or below that root as its second,
\* at any depth; the pairs come root by root in the order of roots, the
\* root being traversed is the first element, and a traversal that ends
\* has paired every root with each of its reachable paths exactly once.
C21_PairsCarrySourceRoot ==
    /\ \A i \in DOMAIN pairs :
          /\ \E k \in DOMAIN walk_roots : pairs[i][1] = walk_roots[k]
          /\ IsBelowOrAt(pairs[i][2], pairs[i][1])
    /\ \A i, j \in DOMAIN pairs :
          /\ (i < j => RootPos(pairs[i][1]) <= RootPos(pairs[j][1]))
          /\ (i # j => pairs[i] # pairs[j])
    /\ pairs # <<>> => Last(pairs)[1] = walk_roots[rootIdx]
    /\ wastate = "done" =>
          {pairs[i] : i \in DOMAIN pairs} =
              {pr \in Dirs \X (TreePaths \cup {root}) :
                  /\ \E k \in DOMAIN walk_roots : pr[1] = walk_roots[k]
                  /\ pr[2] \in ReachableFrom(pr[1])}

\* walk_all(<<root/b, root>>) has ended: the entry two levels below root
\* was paired with root, after the pairs of root/b.
C21_Witness ==
    /\ wastate = "done"
    /\ walk_roots = <<<<"root", "b">>, root>>
    /\ \E i \in DOMAIN pairs : pairs[i] = <<root, <<"root", "a", "b">>>>
    /\ pairs[1] = <<<<"root", "b">>, <<"root", "b">>>>

\* ---------------- claims: cli.config.ConfigStorage ----------------

\* What leaving the with statement does to the file when the Config is
\* compared with the copy taken at load time.
LazyWrite ==
    IF config = old_config
      THEN UNCHANGED <<cfgFile, cfgParent, cfgWrites>>
      ELSE /\ cfgWrites' = cfgWrites + 1
           /\ cfgParent'
           /\ cfgFile'.exists
           /\ from_toml(cfgFile'.table) = [ok |-> TRUE, config |-> config]

EarlierInterrupted ==
    \A i \in 1..(Len(attempts) - 1) : attempts[i] = <<-1, EINTR>>

\* C23: the wrapped function is called again after each -1 with errno
\* EINTR and only then; the wrapper returns the first result that is not
\* -1, and at the first -1 with another errno it raises OSError with that
\* errno, that call being the last one.
C23_RetryOnlyOnEINTR ==
    /\ rpc = "calling" => \A i \in DOMAIN attempts : attempts[i] = <<-1, EINTR>>
    /\ rpc = "returned" =>
          /\ attempts # <<>> /\ EarlierInterrupted
          /\ Last(attempts)[1] # -1
          /\ result = Last(attempts)[1]
    /\ rpc = "raised" =>
          /\ attempts # <<>> /\ EarlierInterrupted
          /\ Last(attempts)[1] = -1
          /\ Last(attempts)[2] # EINTR
          /\ raised_errno = Last(attempts)[2]

\* A call was interrupted twice and then failed with ENOSPC, which the
\* wrapper raised.
C23_Witness ==
    /\ rpc = "raised"
    /\ attempts = <<<<-1, EINTR>>, <<-1, EINTR>>, <<-1, 28>>>>
    /\ raised_errno = 28

\* ---------------- claims: INotify.parse_events ----------------

\* C24: parse_events yields one Event per record of the byte string, in
\* the order of the records; after each Event its position is just past
\* that record's header and name_length bytes; the Event carries the
\* record's mask and the path registered for the record's watch
\* descriptor, joined with the name without any padding byte, which for a
\* record without a name is the registered path itself.
C24_OneEventPerRecord ==
    /\ Len(yielded) <= Len(records)
    /\ pos = Len(EncodeAll(SubSeq(records, 1, Len(yielded))))
    /\ pos >= Len(data) => Len(yielded) = Len(records)
    /\ \A i \in DOMAIN yielded :
          /\ yielded[i].mask = records[i].mask
          /\ yielded[i].path =
                 IF records[i].name = ""
                   THEN watch_descriptor_to_path[records[i].wd]
                   ELSE Append(watch_descriptor_to_path[records[i].wd],
                               records[i].name)

\* A byte string of two records has been parsed to its end: a creation of
\* "b" inside root/a, whose name is padded to 16 bytes, and the deletion of
\* root/a itself, a record with name_length 0.
C24_Witness ==
    /\ records = <<[wd |-> 2, mask |-> CREATE + ISDIR, name |-> "b"],
                   [wd |-> 2, mask |-> DELETE_SELF, name |-> ""]>>
    /\ Len(data) = 48
    /\ pos = 48
    /\ yielded = <<[mask |-> CREATE + ISDIR, path |-> <<"root", "a", "b">>],
                   [mask |-> DELETE_SELF, path |-> <<"root", "a">>]>>

\* ---------------- claims: the kernel's records ----------------

\* C25: in a watch session every record taken from the inotify
\* descriptor names a watch descriptor that is a key of
\* watch_descriptor_to_path, so the lookup in parse_events never fails and
\* the stream never ends with its KeyError, also after a watched directory
\* was removed and after the kernel's queue was full.
C25_DescriptorIsRegistered ==
    /\ wpc # "failed"
    /\ (wpc = "iterating" /\ pos < Len(data)) => Parsed.known

\* ---------------- claims: the inotify descriptor ----------------

\* C26: as long as the INotify object exists its descriptor is open, also
\* after a stream of events() has ended, was closed or was cancelled, so
\* that a further events() call does not fail on the descriptor.
C26_DescriptorOpenWhileObjectLives ==
    wpc # "init" => (fd = "open" /\ wpc # "failed")

\* ---------------- claims: the end of the batched stream ----------------

\* C27: without a cancellation or close the stream of time_batched never
\* finishes, and once the source is exhausted with nothing left in the
\* queue a request of the consumer stays pending for ever: no batch, not
\* even an empty one, is produced any more.
C27_NeverEndsOnItsOwn ==
    /\ [](tbpc \notin {"finalizing", "closed"})
    /\ \A n \in 0..MaxItems :
          []((queue_task = "done" /\ queue = <<>> /\ tbpc = "get" /\ Len(emitted) = n)
                => [](tbpc = "get" /\ Len(emitted) = n))

\* The source ended after a batch was delivered and the consumer has asked
\* for the next one.
C27_Witness ==
    /\ queue_task = "done"
    /\ queue = <<>>
    /\ tbpc = "get"
    /\ Len(emitted) = 1
    /\ Len(sourceItems) = 2

\* ---------------- claims: events before the first request ----------------

C29_EveryChangeIsSynced ==
    \A i \in 1..MaxOps :
        [](i \in DOMAIN ops
             => <>(i \in DOMAIN ops /\ Len(syncLog) > ops[i].syncs))

\* The changes the command does follow with a sync: those made before the
\* initial sync and those made in a directory that is watched.
C29_WatchedChangesAreSynced ==
    \A i \in 1..MaxOps :
        []((i \in DOMAIN ops /\ (ops[i].seen \/ ops[i].syncs = 0))
             => <>(i \in DOMAIN ops /\ Len(syncLog) > ops[i].syncs))


\* ---------------- claims: fs.upload onto a used mountpoint ----------------

\* A file of the mountpoint whose relative path is that of no file in any
\* source directory.
Unmatched(rel) == dst[rel].exists /\ \A r \in Roots : ~src[r][rel].exists

\* C30: a run of upload leaves every destination file unchanged whose
\* relative path matches no current source file, whether it was on the
\* mountpoint from the start or copied by an earlier run from a source file
\* that has been deleted since.
C30_UnmatchedFilesUntouched ==
    [][uploads' # uploads
         => \A rel \in Paths : Unmatched(rel) => dst'[rel] = dst[rel]]_vars

\* The same, for runs in which no source file bears the name of a
\* directory of the mountpoint.
C30_UntouchedWithoutNameClash ==
    [][(/\ uploads' # uploads
        /\ \A r \in Roots, d \in dstDirs : ~src[r][<<d>>].exists)
         => \A rel \in Paths : Unmatched(rel) => dst'[rel] = dst[rel]]_vars

====
